---------------------------- MODULE Spec2Model ----------------------------
(***************************************************************************)
(* ClipGenius AI reframe service (backend/services/reframer.py).           *)
(*                                                                         *)
(* One reframe call is modelled as a sequential state machine: the two     *)
(* entry points cut_clip_with_tracking and cut_clip_with_dynamic_tracking, *)
(* the face sampler detect_faces_in_video, the pure helpers                *)
(* smooth_positions / interpolate_positions / calculate_dynamic_crop, the  *)
(* OpenCV capture and writer handles, the external ffprobe / ffmpeg        *)
(* invocations and the two files the call touches.                         *)
(*                                                                         *)
(* Python floats are modelled as exact rationals <<numerator, denominator>>*)
(* (denominator > 0); int() is truncation toward zero.                     *)
(***************************************************************************)
EXTENDS Integers, Sequences, FiniteSets, TLC

-----------------------------------------------------------------------------
(* Rational arithmetic standing for Python float arithmetic.               *)

Abs(a) == IF a < 0 THEN -a ELSE a

RECURSIVE GCD(_, _)
GCD(a, b) == IF b = 0 THEN a ELSE GCD(b, a % b)

Rat(n, d) ==
    LET g == GCD(Abs(n), Abs(d))
        s == IF d < 0 THEN -1 ELSE 1
    IN  IF g = 0 THEN <<0, 1>> ELSE <<(s * n) \div g, (s * d) \div g>>

RAdd(p, q) == Rat(p[1] * q[2] + q[1] * p[2], p[2] * q[2])
RSub(p, q) == Rat(p[1] * q[2] - q[1] * p[2], p[2] * q[2])
RMul(p, q) == Rat(p[1] * q[1], p[2] * q[2])
RDiv(p, q) == Rat(p[1] * q[2], p[2] * q[1])
RLt(p, q)  == p[1] * q[2] < q[1] * p[2]
RLe(p, q)  == p[1] * q[2] <= q[1] * p[2]
RInt(k)    == <<k, 1>>

\* Python int(float): truncation toward zero.
IntOf(p) == IF p[1] >= 0 THEN p[1] \div p[2] ELSE -((-p[1]) \div p[2])

Max(a, b) == IF a >= b THEN a ELSE b
Min(a, b) == IF a <= b THEN a ELSE b

RECURSIVE RSumTo(_, _)
\* sum(f[1..n]) of a sequence of rationals
RSumTo(f, n) == IF n = 0 THEN <<0, 1>> ELSE RAdd(RSumTo(f, n - 1), f[n])

-----------------------------------------------------------------------------
(* Program constants.                                                      *)

\* default smoothing_window of smooth_positions, used by cut_clip_with_tracking
StaticWindow == 5
\* smoothing_window passed by cut_clip_with_dynamic_tracking
DynamicWindow == 7
\* the fixed fallback centre (0.5, 0.4)
DefaultCentre == <<Rat(1, 2), Rat(2, 5)>>
\* default target_ratio of calculate_dynamic_crop (9/16); no caller overrides it
DefaultRatio == Rat(9, 16)

-----------------------------------------------------------------------------
(* Pure helpers of AIReframer.                                             *)

\* A mutation of calculate_dynamic_crop: the clamp to the video bounds is lost.
calculate_dynamic_crop_noclamp(source_width, source_height, face_x, face_y, target_ratio) ==
    LET wider == RLt(target_ratio, Rat(source_width, source_height))
        crop_height == IF wider THEN source_height
                       ELSE IntOf(RDiv(RInt(source_width), target_ratio))
        crop_width == IF wider THEN IntOf(RMul(RInt(source_height), target_ratio))
                      ELSE source_width
        ideal_x == IntOf(RMul(face_x, RInt(source_width)))
        ideal_y == IntOf(RMul(face_y, RInt(source_height)))
    IN  [x |-> ideal_x - crop_width \div 2, y |-> ideal_y - crop_height \div 2,
         width |-> crop_width, height |-> crop_height]

\* A mutation of calculate_dynamic_crop: the computed side is rounded up.
calculate_dynamic_crop_roundup(source_width, source_height, face_x, face_y, target_ratio) ==
    LET wider == RLt(target_ratio, Rat(source_width, source_height))
        crop_height == IF wider THEN source_height
                       ELSE Min(source_height,
                                IntOf(RDiv(RInt(source_width), target_ratio)) + 1)
        crop_width == IF wider
                      THEN Min(source_width,
                               IntOf(RMul(RInt(source_height), target_ratio)) + 1)
                      ELSE source_width
        ideal_x == IntOf(RMul(face_x, RInt(source_width)))
        ideal_y == IntOf(RMul(face_y, RInt(source_height)))
        crop_x == ideal_x - crop_width \div 2
        crop_y == ideal_y - crop_height \div 2
    IN  [x |-> Max(0, Min(crop_x, source_width - crop_width)),
         y |-> Max(0, Min(crop_y, source_height - crop_height)),
         width |-> crop_width, height |-> crop_height]

\* A mutation of calculate_dynamic_crop: the rectangle starts at the centre
\* instead of being centred on it.
calculate_dynamic_crop_uncentred(source_width, source_height, face_x, face_y, target_ratio) ==
    LET wider == RLt(target_ratio, Rat(source_width, source_height))
        crop_height == IF wider THEN source_height
                       ELSE IntOf(RDiv(RInt(source_width), target_ratio))
        crop_width == IF wider THEN IntOf(RMul(RInt(source_height), target_ratio))
                      ELSE source_width
        ideal_x == IntOf(RMul(face_x, RInt(source_width)))
        ideal_y == IntOf(RMul(face_y, RInt(source_height)))
    IN  [x |-> Max(0, Min(ideal_x, source_width - crop_width)),
         y |-> Max(0, Min(ideal_y, source_height - crop_height)),
         width |-> crop_width, height |-> crop_height]

\* A mutation of calculate_dynamic_crop: only the lower clamp is kept.
calculate_dynamic_crop_nomin(source_width, source_height, face_x, face_y, target_ratio) ==
    LET wider == RLt(target_ratio, Rat(source_width, source_height))
        crop_height == IF wider THEN source_height
                       ELSE IntOf(RDiv(RInt(source_width), target_ratio))
        crop_width == IF wider THEN IntOf(RMul(RInt(source_height), target_ratio))
                      ELSE source_width
        ideal_x == IntOf(RMul(face_x, RInt(source_width)))
        ideal_y == IntOf(RMul(face_y, RInt(source_height)))
        crop_x == ideal_x - crop_width \div 2
        crop_y == ideal_y - crop_height \div 2
    IN  [x |-> Max(0, crop_x), y |-> Max(0, crop_y),
         width |-> crop_width, height |-> crop_height]

\* calculate_dynamic_crop(source_width, source_height, face_x, face_y, target_ratio)
calculate_dynamic_crop(source_width, source_height, face_x, face_y, target_ratio) ==
    LET wider == RLt(target_ratio, Rat(source_width, source_height))
        crop_height == IF wider THEN source_height
                       ELSE IntOf(RDiv(RInt(source_width), target_ratio))
        crop_width == IF wider THEN IntOf(RMul(RInt(source_height), target_ratio))
                      ELSE source_width
        ideal_x == IntOf(RMul(face_x, RInt(source_width)))
        ideal_y == IntOf(RMul(face_y, RInt(source_height)))
        crop_x == ideal_x - crop_width \div 2
        crop_y == ideal_y - crop_height \div 2
    IN  [x |-> Max(0, Min(crop_x, source_width - crop_width)),
         y |-> Max(0, Min(crop_y, source_height - crop_height)),
         width |-> crop_width, height |-> crop_height]

\* A mutation of the padding: zeros instead of the edge values.
ZeroPad(data, window) ==
    LET h == window \div 2
        n == Len(data)
    IN  [i \in 1..(n + 2 * h) |-> IF i - h \in 1..n THEN data[i - h] ELSE <<0, 1>>]

\* np.pad(data, (window//2, window//2), mode='edge')
EdgePad(data, window) ==
    LET h == window \div 2
        n == Len(data)
    IN  [i \in 1..(n + 2 * h) |-> data[Max(1, Min(n, i - h))]]

\* moving_average(data, window): np.convolve(padded, ones/window, 'valid')[:len(data)]
moving_average(data, window) ==
    LET padded == EdgePad(data, window)
        valid == Len(padded) - window + 1
        conv == [k \in 1..valid |->
                    RDiv(RSumTo([j \in 1..window |-> padded[k + j - 1]], window),
                         RInt(window))]
    IN  SubSeq(conv, 1, Min(Len(data), valid))

\* A mutation of smooth_positions: the face width is averaged as well.
smooth_positions_all_fields(positions, smoothing_window) ==
    IF Len(positions) < 3 THEN positions
    ELSE LET smooth_x == moving_average([i \in 1..Len(positions) |-> positions[i].center_x],
                                        smoothing_window)
             smooth_y == moving_average([i \in 1..Len(positions) |-> positions[i].center_y],
                                        smoothing_window)
             smooth_w == moving_average([i \in 1..Len(positions) |-> positions[i].width],
                                        smoothing_window)
         IN  [i \in 1..Len(positions) |->
                [positions[i] EXCEPT !.center_x = smooth_x[i], !.center_y = smooth_y[i],
                                     !.width = smooth_w[i]]]

\* smooth_positions(positions, smoothing_window)
smooth_positions(positions, smoothing_window) ==
    IF Len(positions) < 3 THEN positions
    ELSE LET smooth_x == moving_average([i \in 1..Len(positions) |-> positions[i].center_x],
                                        smoothing_window)
             smooth_y == moving_average([i \in 1..Len(positions) |-> positions[i].center_y],
                                        smoothing_window)
         IN  [i \in 1..Len(positions) |->
                [positions[i] EXCEPT !.center_x = smooth_x[i], !.center_y = smooth_y[i]]]

\* np.linspace(start, stop, num)
linspace(start, stop, num) ==
    IF num = 1 THEN <<start>>
    ELSE [i \in 1..num |->
            RAdd(start, RMul(RInt(i - 1), RDiv(RSub(stop, start), RInt(num - 1))))]

\* A mutation of np.interp: the first and last segments are extended outside
\* [xp[1], xp[n]] instead of holding the edge value.
interp_extrapolating(x, xp, fp) ==
    LET n == Len(xp)
    IN  IF n = 1 THEN fp[1]
        ELSE LET j == IF RLe(x, xp[1]) THEN 1
                      ELSE IF RLe(xp[n], x) THEN n - 1
                      ELSE CHOOSE k \in 1..(n - 1) : RLe(xp[k], x) /\ RLt(x, xp[k + 1])
                 slope == RDiv(RSub(fp[j + 1], fp[j]), RSub(xp[j + 1], xp[j]))
             IN  RAdd(fp[j], RMul(slope, RSub(x, xp[j])))

\* np.interp(x, xp, fp) for increasing xp: linear between neighbours, the edge
\* value outside [xp[1], xp[n]]
interp(x, xp, fp) ==
    LET n == Len(xp)
    IN  IF RLe(x, xp[1]) THEN fp[1]
        ELSE IF RLe(xp[n], x) THEN fp[n]
        ELSE LET j == CHOOSE k \in 1..(n - 1) : RLe(xp[k], x) /\ RLt(x, xp[k + 1])
                 slope == RDiv(RSub(fp[j + 1], fp[j]), RSub(xp[j + 1], xp[j]))
             IN  RAdd(fp[j], RMul(slope, RSub(x, xp[j])))

\* A mutation of interpolate_positions: without positions the centre of the
\* frame (0.5, 0.5) is used.
interpolate_positions_middle(positions, fps, start_time, end_time) ==
    LET num_frames == Max(0, IntOf(RMul(RSub(end_time, start_time), fps)))
    IN  IF Len(positions) = 0
        THEN [i \in 1..num_frames |->
                <<RAdd(start_time, RDiv(RInt(i - 1), fps)), Rat(1, 2), Rat(1, 2)>>]
        ELSE LET timestamps == [i \in 1..Len(positions) |-> positions[i].timestamp]
                 x_coords == [i \in 1..Len(positions) |-> positions[i].center_x]
                 y_coords == [i \in 1..Len(positions) |-> positions[i].center_y]
                 frame_times == linspace(start_time, end_time, num_frames)
             IN  [i \in 1..num_frames |->
                    <<frame_times[i],
                      interp(frame_times[i], timestamps, x_coords),
                      interp(frame_times[i], timestamps, y_coords)>>]

\* A mutation of interpolate_positions: both ends of the window are counted.
interpolate_positions_inclusive(positions, fps, start_time, end_time) ==
    LET num_frames == Max(0, IntOf(RMul(RSub(end_time, start_time), fps))) + 1
    IN  IF Len(positions) = 0
        THEN [i \in 1..num_frames |->
                <<RAdd(start_time, RDiv(RInt(i - 1), fps)),
                  DefaultCentre[1], DefaultCentre[2]>>]
        ELSE LET timestamps == [i \in 1..Len(positions) |-> positions[i].timestamp]
                 x_coords == [i \in 1..Len(positions) |-> positions[i].center_x]
                 y_coords == [i \in 1..Len(positions) |-> positions[i].center_y]
                 frame_times == linspace(start_time, end_time, num_frames)
             IN  [i \in 1..num_frames |->
                    <<frame_times[i],
                      interp(frame_times[i], timestamps, x_coords),
                      interp(frame_times[i], timestamps, y_coords)>>]

\* interpolate_positions(positions, fps, start_time, end_time):
\* a sequence of <<timestamp, center_x, center_y>>
interpolate_positions(positions, fps, start_time, end_time) ==
    LET num_frames == Max(0, IntOf(RMul(RSub(end_time, start_time), fps)))
    IN  IF Len(positions) = 0
        THEN [i \in 1..num_frames |->
                <<RAdd(start_time, RDiv(RInt(i - 1), fps)),
                  DefaultCentre[1], DefaultCentre[2]>>]
        ELSE LET timestamps == [i \in 1..Len(positions) |-> positions[i].timestamp]
                 x_coords == [i \in 1..Len(positions) |-> positions[i].center_x]
                 y_coords == [i \in 1..Len(positions) |-> positions[i].center_y]
                 frame_times == linspace(start_time, end_time, num_frames)
             IN  [i \in 1..num_frames |->
                    <<frame_times[i],
                      interp(frame_times[i], timestamps, x_coords),
                      interp(frame_times[i], timestamps, y_coords)>>]

-----------------------------------------------------------------------------
(* Bounds of the model.                                                    *)

\* latest end_time of a request, in seconds
MaxTime == 2
\* cap on the sampled positions kept while the sampling loop does not advance
MaxPositions == 4
\* largest source width / height, ratio term and centre numerator drawn for
\* the pure crop calculator
MaxSide == 6
MaxRatioTerm == 3
MaxCentreNum == 5

\* largest number of samples and latest sample time (in half seconds) drawn for
\* the pure interpolation
MaxSamples == 3
MaxSampleTick == 4
\* longest position list drawn for the pure smoothing
MaxSmoothLen == 6
\* largest smoothing window tried besides the two the entry points pass
MaxWindow == 4
\* latest clock value (in staleness thresholds) and most clips per project
MaxNow == 2
MaxClips == 1

\* source sizes, frame rates, source lengths (frames) and sample intervals
Sources == {<<1920, 1080>>, <<720, 1280>>}
FrameRates == {RInt(1), RInt(2)}
SourceLengths == {3, 2 * MaxTime + 2}
SampleIntervals == {Rat(1, 2), RInt(1)}

\* output sizes (target_w, target_h) a caller may ask for: 9:16 (the default) and 1:1
TargetResolutions == {<<1080, 1920>>, <<1080, 1080>>}

\* what the detection backend may report for a frame:
\* (center_x, center_y, width, height, confidence)
Detections ==
    { <<Rat(3, 10), Rat(2, 5), Rat(1, 5), Rat(1, 4), Rat(9, 10)>>,
      <<Rat(4, 5), Rat(1, 2), Rat(1, 10), Rat(1, 5), Rat(3, 5)>> }

\* _detect_face_in_frame returned None
NoFace == <<>>

-----------------------------------------------------------------------------
(* State of one reframe call.                                              *)

VARIABLES
    env,              \* CV2_AVAILABLE, MEDIAPIPE_AVAILABLE, face_detector, the source file
    req,              \* the caller's arguments and the entry point called
    pc,               \* position in the call
    enable_tracking,  \* parameter of the running cut_clip_with_tracking activation
    caller,           \* which entry point called detect_faces_in_video
    sampling,         \* progress of detect_faces_in_video
    face_positions,   \* list of FacePosition
    frame_num,        \* detect_faces_in_video loop variable
    interpolated,     \* per-frame <<timestamp, x, y>> of the dynamic render
    frame_idx,        \* frame loop variable of the dynamic render
    handles,          \* OpenCV capture / writer handles
    files,            \* which of output_path / temp_video_path exist
    calls,            \* invocations issued so far
    fed,              \* centres passed to calculate_dynamic_crop, in order
    crops,            \* rectangles it returned, in order
    proc,             \* outcome of the last ffmpeg invocation
    error,            \* the exception the call raised
    result,           \* the dict the call returned
    orch,             \* cut_clip_with_optional_reframe around the call
    project,          \* the Project row: lock columns, status, progress
    tasks,            \* the process_video invocations for that project
    now,              \* datetime.utcnow(), in units of the staleness threshold
    pureIn,           \* arguments of a pure helper under test
    pureOut           \* its value

vars == <<env, req, pc, enable_tracking, caller, sampling, face_positions, frame_num,
          interpolated, frame_idx, handles, files, calls, fed, crops, proc, error,
          result, orch, project, tasks, now, pureIn, pureOut>>

callVars == <<env, req, pc, enable_tracking, caller, sampling, face_positions, frame_num,
              interpolated, frame_idx, handles, files, calls, fed, crops, proc, error,
              result, orch>>

procVars == <<project, tasks, now>>

NoHandle == [made |-> FALSE, opened |-> FALSE, open |-> FALSE, releases |-> 0]

\* cv2.VideoCapture(path) / cv2.VideoWriter(...): the object exists, opened or not
Construct(opened) == [made |-> TRUE, opened |-> opened, open |-> opened, releases |-> 0]

\* h.release() guarded by "if h is not None"
Release(h) == IF h.made THEN [h EXCEPT !.open = FALSE, !.releases = @ + 1] ELSE h

Environments ==
    { e \in [cv2 : BOOLEAN, mediapipe : BOOLEAN, detector : BOOLEAN,
             size : Sources, fps : FrameRates, total_frames : SourceLengths] :
        e.detector => (e.cv2 /\ e.mediapipe) }

Requests ==
    { r \in [entry : {"tracking", "dynamic"}, enable_tracking : BOOLEAN,
             start_time : 0..(MaxTime - 1), end_time : 1..MaxTime,
             target_resolution : TargetResolutions,
             sample_interval : SampleIntervals] :
        /\ r.start_time < r.end_time
        /\ (r.entry = "dynamic") => r.enable_tracking
        \* a non-default output size is drawn with the first one-second window only
        /\ (r.target_resolution # <<1080, 1920>>) => (r.start_time = 0 /\ r.end_time = 1) }

NoError == [kind |-> "none", message |-> "none"]
NoProc == [rc |-> 0, stderr |-> "none", wrote |-> FALSE]

\* the wrapper while the reframer runs: nothing returned, nothing logged
NoOrch == [pc |-> "reframe", clip_result |-> <<>>, bg_log |-> <<>>, cut_clip |-> 0]

\* "elapsed > 600" of acquire_processing_lock; the clock counts in this unit
StaleAfter == 600

\* the process_video invocations followed for one project: the one scheduled
\* when the project is created or uploaded, and two scheduled by reprocess
Invocations == {"create", "reprocess_a", "reprocess_b", "reprocess_c"}

\* processing_started_at = None
NoTime == -1

\* the row as create_project commits it
NewProject ==
    [is_processing |-> FALSE, processing_started_at |-> NoTime,
     status |-> "pending", progress |-> 0, video |-> FALSE]

NoTask == [pc |-> "none", acquired |-> FALSE, total_clips |-> 0, clip_num |-> 0]

\* no process_video invocation is being followed
NoProcessing ==
    /\ project = NewProject
    /\ tasks = [t \in Invocations |-> NoTask]
    /\ now = 0

\* the values every call starts from
FreshCall ==
    /\ caller = "none" /\ sampling = "none"
    /\ face_positions = <<>> /\ frame_num = 0
    /\ interpolated = <<>> /\ frame_idx = 0
    /\ handles = [cap_detect |-> NoHandle, cap_render |-> NoHandle, out |-> NoHandle]
    /\ files = [output |-> FALSE, temp |-> FALSE]
    /\ calls = [probe |-> 0, detect |-> 0, transcode |-> 0, mux |-> 0]
    /\ fed = <<>> /\ crops = <<>>
    /\ proc = NoProc /\ error = NoError /\ result = <<>>
    /\ orch = NoOrch
    /\ NoProcessing

Init ==
    /\ env \in Environments
    /\ req \in Requests
    /\ pc = "start"
    /\ enable_tracking = req.enable_tracking
    /\ FreshCall
    /\ pureIn = <<>> /\ pureOut = <<>>

-----------------------------------------------------------------------------
(* Derived values of a call.                                               *)

source_width == env.size[1]
source_height == env.size[2]
start_time == RInt(req.start_time)
end_time == RInt(req.end_time)

\* "target_w, target_h = target_resolution": the size the crop is scaled to
\* (scale=target_w:target_h, cv2.resize(cropped, (target_w, target_h)))
target_w == req.target_resolution[1]
target_h == req.target_resolution[2]

\* detect_faces_in_video: sample_frames, start_frame, end_frame
sample_frames == IntOf(RMul(req.sample_interval, env.fps))
start_frame == IntOf(RMul(start_time, env.fps))
end_frame == IntOf(RMul(end_time, env.fps))

\* cap.read() of the frame at index k of the source: ret
ReadOk(h, k) == h.open /\ k < env.total_frames

\* sum(...) / len(...) over a non-empty list of floats
Mean(f) == RDiv(RSumTo(f, Len(f)), RInt(Len(f)))

Raise(kind, message) ==
    /\ pc' = "raised"
    /\ error' = [kind |-> kind, message |-> message]

-----------------------------------------------------------------------------
(* detect_faces_in_video                                                   *)

\* FacePosition(frame_num, timestamp, center_x, ...) appended for face_data
FacePosition(n, face_data) ==
    [frame_num |-> n, timestamp |-> RDiv(RInt(n), env.fps),
     center_x |-> face_data[1], center_y |-> face_data[2],
     width |-> face_data[3], height |-> face_data[4], confidence |-> face_data[5]]

ReturnPc == IF caller = "tracking" THEN "T_after_detect" ELSE "D_after_detect"

\* A mutation of the open check: an unreadable source yields an empty list.
OpenCheckSilent(opened) == IF opened THEN "detect_loop" ELSE ReturnPc

\* "if not cap.isOpened(): raise ValueError": where control goes after the open
OpenCheck(opened) == IF opened THEN "detect_loop" ELSE "raised"

\* entry of detect_faces_in_video up to the loop
DetectOpen ==
    /\ pc = "detect_open"
    /\ IF ~env.mediapipe \/ ~env.cv2 \/ ~env.detector
       THEN /\ pc' = ReturnPc
            /\ sampling' = "returned"
            /\ UNCHANGED <<handles, frame_num, error>>
       ELSE \E opened \in BOOLEAN :
            /\ pc' = OpenCheck(opened)
            /\ IF pc' = "detect_loop"
               THEN /\ handles' = [handles EXCEPT !.cap_detect = Construct(opened)]
                    /\ frame_num' = start_frame
                    /\ sampling' = "running"
                    /\ UNCHANGED error
               ELSE /\ handles' = [handles EXCEPT
                                     !.cap_detect = Release(Construct(opened))]
                    /\ sampling' = IF pc' = "raised" THEN "unreadable" ELSE "returned"
                    /\ error' = IF pc' = "raised"
                                THEN [kind |-> "ValueError", message |-> "could not open"]
                                ELSE error
                    /\ UNCHANGED frame_num
    /\ UNCHANGED <<env, req, enable_tracking, caller, face_positions, interpolated,
                   frame_idx, files, calls, fed, crops, proc, result, pureIn, pureOut, orch, procVars>>

\* one iteration of "while frame_num < end_frame" whose read succeeds
DetectSample ==
    /\ pc = "detect_loop"
    /\ frame_num < end_frame
    /\ ReadOk(handles.cap_detect, frame_num)
    /\ \E face_data \in Detections \cup {NoFace} :
          IF face_data = NoFace
          THEN UNCHANGED face_positions
          ELSE /\ sample_frames > 0 \/ Len(face_positions) < MaxPositions
               /\ face_positions' = Append(face_positions,
                                           FacePosition(frame_num, face_data))
    /\ frame_num' = frame_num + sample_frames
    /\ UNCHANGED <<env, req, pc, enable_tracking, caller, sampling, interpolated,
                   frame_idx, handles, files, calls, fed, crops, proc, error, result,
                   pureIn, pureOut, orch, procVars>>

\* an iteration in which cvtColor or the detector raises: finally releases cap
DetectRaise ==
    /\ pc = "detect_loop"
    /\ frame_num < end_frame
    /\ ReadOk(handles.cap_detect, frame_num)
    /\ handles' = [handles EXCEPT !.cap_detect = Release(@)]
    /\ sampling' = "raised"
    /\ Raise("DetectorError", "detector")
    /\ UNCHANGED <<env, req, enable_tracking, caller, face_positions, frame_num,
                   interpolated, frame_idx, files, calls, fed, crops, proc, result,
                   pureIn, pureOut, orch, procVars>>

\* loop exit (condition false, or "if not ret: break"), return through finally
DetectReturn ==
    /\ pc = "detect_loop"
    /\ frame_num >= end_frame \/ ~ReadOk(handles.cap_detect, frame_num)
    /\ handles' = [handles EXCEPT !.cap_detect = Release(@)]
    /\ sampling' = "returned"
    /\ pc' = ReturnPc
    /\ UNCHANGED <<env, req, enable_tracking, caller, face_positions, frame_num,
                   interpolated, frame_idx, files, calls, fed, crops, proc, error,
                   result, pureIn, pureOut, orch, procVars>>

-----------------------------------------------------------------------------
(* cut_clip_with_tracking                                                  *)

\* A mutation of the tracking test: the detector is not consulted.
ShouldTrackIgnoringDetector(enabled, detector) == enabled

\* "if enable_tracking and self.face_detector is not None"
ShouldTrack(enabled, detector) == enabled /\ detector

\* A mutation of the static centre: the mean of the raw positions.
StaticCentreRaw(positions) ==
    IF positions # <<>>
    THEN <<Mean([i \in 1..Len(positions) |-> positions[i].center_x]),
           Mean([i \in 1..Len(positions) |-> positions[i].center_y])>>
    ELSE DefaultCentre

\* the centre cut_clip_with_tracking crops around after sampling:
\* (avg_x, avg_y) of the smoothed positions, or the default
StaticCentre(positions) ==
    IF positions # <<>>
    THEN LET smoothed_positions == smooth_positions(positions, StaticWindow)
         IN  <<Mean([i \in 1..Len(smoothed_positions) |-> smoothed_positions[i].center_x]),
               Mean([i \in 1..Len(smoothed_positions) |-> smoothed_positions[i].center_y])>>
    ELSE DefaultCentre

\* self.calculate_dynamic_crop(source_width, source_height, x, y) as both
\* entry points call it: target_ratio is left at its default
CropAt(centre) ==
    calculate_dynamic_crop(source_width, source_height, centre[1], centre[2],
                           DefaultRatio)

\* entry of either function: dispatch on the function the caller invoked
Enter ==
    /\ pc = "start"
    /\ orch.pc = "reframe"
    /\ pc' = IF req.entry = "dynamic" THEN "D_entry" ELSE "T_probe"
    /\ UNCHANGED <<env, req, enable_tracking, caller, sampling, face_positions,
                   frame_num, interpolated, frame_idx, handles, files, calls, fed,
                   crops, proc, error, result, pureIn, pureOut, orch, procVars>>

\* get_video_info (ffprobe, check=True) at the top of cut_clip_with_tracking
TrackingProbe ==
    /\ pc = "T_probe"
    /\ calls' = [calls EXCEPT !.probe = @ + 1]
    /\ \E ok \in BOOLEAN :
          IF ok THEN pc' = "T_branch" /\ UNCHANGED error
          ELSE Raise("CalledProcessError", "ffprobe")
    /\ UNCHANGED <<env, req, enable_tracking, caller, sampling, face_positions,
                   frame_num, interpolated, frame_idx, handles, files, fed, crops,
                   proc, result, pureIn, pureOut, orch, procVars>>

\* the tracking test: call the sampler, or crop around the default centre
TrackingBranch ==
    /\ pc = "T_branch"
    /\ IF ShouldTrack(enable_tracking, env.detector)
       THEN /\ pc' = "detect_open"
            /\ caller' = "tracking"
            /\ calls' = [calls EXCEPT !.detect = @ + 1]
            /\ UNCHANGED <<fed, crops>>
       ELSE /\ pc' = "T_run"
            /\ fed' = Append(fed, DefaultCentre)
            /\ crops' = Append(crops, CropAt(DefaultCentre))
            /\ UNCHANGED <<caller, calls>>
    /\ UNCHANGED <<env, req, enable_tracking, sampling, face_positions, frame_num,
                   interpolated, frame_idx, handles, files, proc, error, result,
                   pureIn, pureOut, orch, procVars>>

\* after detect_faces_in_video returned: "if face_positions: ... else: ..."
TrackingAfterDetect ==
    /\ pc = "T_after_detect"
    /\ pc' = "T_run"
    /\ fed' = Append(fed, StaticCentre(face_positions))
    /\ crops' = Append(crops, CropAt(StaticCentre(face_positions)))
    /\ UNCHANGED <<env, req, enable_tracking, caller, sampling, face_positions,
                   frame_num, interpolated, frame_idx, handles, files, calls, proc,
                   error, result, pureIn, pureOut, orch, procVars>>

\* what an ffmpeg invocation may do: exit status, stderr, output written
FfmpegOutcomes ==
    { o \in [rc : {0, 1}, stderr : {"none", "text", "undecodable"}, wrote : BOOLEAN] :
        o.rc = 0 => o.stderr = "none" }

\* subprocess.run(cmd, check=True, capture_output=True) of the crop+scale command
TrackingRun ==
    /\ pc = "T_run"
    /\ calls' = [calls EXCEPT !.transcode = @ + 1]
    /\ \/ \E o \in FfmpegOutcomes :
             /\ proc' = o
             /\ files' = [files EXCEPT !.output = @ \/ o.wrote]
             /\ pc' = IF o.rc = 0 THEN "T_verify" ELSE "T_failed"
             /\ UNCHANGED error
       \/ /\ Raise("OSError", "ffmpeg not started")
          /\ UNCHANGED <<proc, files>>
    /\ UNCHANGED <<env, req, enable_tracking, caller, sampling, face_positions,
                   frame_num, interpolated, frame_idx, handles, fed, crops, result,
                   pureIn, pureOut, orch, procVars>>

\* error_msg = e.stderr.decode() if e.stderr else str(e), then the raise
RaiseWithDiagnostic ==
    IF proc.stderr = "undecodable" THEN Raise("UnicodeDecodeError", "codec")
    ELSE IF proc.stderr = "text" THEN Raise("RuntimeError", "stderr")
    ELSE Raise("RuntimeError", "str(e)")

\* "if path.exists(): path.unlink()": whether the file exists afterwards; the
\* unlink is taken to succeed (its own failure is swallowed by the code)
Unlinked(exists) == FALSE

\* except CalledProcessError: unlink the partial file if there is one, raise
TrackingFailed ==
    /\ pc = "T_failed"
    /\ files' = [files EXCEPT !.output = Unlinked(@)]
    /\ RaiseWithDiagnostic
    /\ UNCHANGED <<env, req, enable_tracking, caller, sampling, face_positions,
                   frame_num, interpolated, frame_idx, handles, calls, fed, crops,
                   proc, result, pureIn, pureOut, orch, procVars>>

\* tracking_was_used and the returned dict
TrackingResult ==
    LET tracking_was_used == enable_tracking /\ env.detector
    IN  [video_path |-> "output",
         tracking_enabled |-> tracking_was_used,
         faces_detected |-> IF tracking_was_used THEN Len(face_positions) ELSE 0,
         crop_info |-> crops[Len(crops)]]

\* "if not output_path.exists(): raise", else return the dict
TrackingReturn ==
    /\ pc = "T_verify"
    /\ IF ~files.output
       THEN Raise("RuntimeError", "output file not found") /\ UNCHANGED result
       ELSE pc' = "returned" /\ result' = <<TrackingResult>> /\ UNCHANGED error
    /\ UNCHANGED <<env, req, enable_tracking, caller, sampling, face_positions,
                   frame_num, interpolated, frame_idx, handles, files, calls, fed,
                   crops, proc, pureIn, pureOut, orch, procVars>>

-----------------------------------------------------------------------------
(* cut_clip_with_dynamic_tracking                                          *)

\* A mutation of the empty-detection test: the dynamic render always runs.
FallsBackNever(positions) == FALSE

\* "if not face_positions": fall back to the static crop
FallsBack(positions) == positions = <<>>

\* smoothed = smooth_positions(face_positions, 7); interpolate_positions(smoothed, ...)
Trajectory(positions) ==
    interpolate_positions(smooth_positions(positions, DynamicWindow),
                          env.fps, start_time, end_time)

\* A mutation of the finally block: the writer is not released.
ReleaseRenderHandlesCapOnly(h) == [h EXCEPT !.cap_render = Release(@)]

\* finally: cap.release() and out.release(), each if not None
ReleaseRenderHandles(h) ==
    [h EXCEPT !.cap_render = Release(@), !.out = Release(@)]

\* "if not CV2_AVAILABLE or self.face_detector is None": delegate to
\* cut_clip_with_tracking(..., enable_tracking=False); else get_video_info and sample
DynamicEntry ==
    /\ pc = "D_entry"
    /\ IF ~env.cv2 \/ ~env.detector
       THEN /\ enable_tracking' = FALSE
            /\ pc' = "T_probe"
            /\ UNCHANGED <<calls, caller, error>>
       ELSE \E ok \in BOOLEAN :
            IF ok
            THEN /\ calls' = [calls EXCEPT !.probe = @ + 1, !.detect = @ + 1]
                 /\ caller' = "dynamic"
                 /\ pc' = "detect_open"
                 /\ UNCHANGED <<enable_tracking, error>>
            ELSE /\ calls' = [calls EXCEPT !.probe = @ + 1]
                 /\ Raise("CalledProcessError", "ffprobe")
                 /\ UNCHANGED <<enable_tracking, caller>>
    /\ UNCHANGED <<env, req, sampling, face_positions, frame_num, interpolated,
                   frame_idx, handles, files, fed, crops, proc, result, pureIn,
                   pureOut, orch, procVars>>

\* after sampling: static fallback when nothing was detected, else smooth and
\* interpolate
DynamicAfterDetect ==
    /\ pc = "D_after_detect"
    /\ IF FallsBack(face_positions)
       THEN /\ enable_tracking' = FALSE
            /\ pc' = "T_probe"
            /\ UNCHANGED interpolated
       ELSE /\ interpolated' = Trajectory(face_positions)
            /\ pc' = "D_open"
            /\ UNCHANGED enable_tracking
    /\ UNCHANGED <<env, req, caller, sampling, face_positions, frame_num, frame_idx,
                   handles, files, calls, fed, crops, proc, error, result, pureIn,
                   pureOut, orch, procVars>>

\* cap = cv2.VideoCapture(...); out = cv2.VideoWriter(temp_video_path, ...):
\* neither is checked with isOpened(); an opened writer creates the temp file
DynamicOpen ==
    /\ pc = "D_open"
    /\ \E cap_opened \in BOOLEAN, out_opened \in BOOLEAN :
          /\ handles' = [handles EXCEPT !.cap_render = Construct(cap_opened),
                                        !.out = Construct(out_opened)]
          /\ files' = [files EXCEPT !.temp = @ \/ out_opened]
    /\ pc' = "D_loop"
    /\ UNCHANGED <<env, req, enable_tracking, caller, sampling, face_positions,
                   frame_num, interpolated, frame_idx, calls, fed, crops, proc, error,
                   result, pureIn, pureOut, orch, procVars>>

\* the writer's constructor raises after the capture was made: finally
DynamicOpenRaise ==
    /\ pc = "D_open"
    /\ \E cap_opened \in BOOLEAN :
          handles' = ReleaseRenderHandles(
                        [handles EXCEPT !.cap_render = Construct(cap_opened)])
    /\ Raise("WriterError", "writer")
    /\ UNCHANGED <<env, req, enable_tracking, caller, sampling, face_positions,
                   frame_num, interpolated, frame_idx, files, calls, fed, crops, proc,
                   result, pureIn, pureOut, orch, procVars>>

\* one iteration of "while frame_idx < total_frames" whose read succeeds:
\* crop around interpolated[frame_idx], resize, write
DynamicFrame ==
    /\ pc = "D_loop"
    /\ frame_idx < Len(interpolated)
    /\ ReadOk(handles.cap_render, start_frame + frame_idx)
    /\ LET centre == <<interpolated[frame_idx + 1][2], interpolated[frame_idx + 1][3]>>
       IN  /\ fed' = Append(fed, centre)
           /\ crops' = Append(crops, CropAt(centre))
    /\ frame_idx' = frame_idx + 1
    /\ UNCHANGED <<env, req, pc, enable_tracking, caller, sampling, face_positions,
                   frame_num, interpolated, handles, files, calls, proc, error, result,
                   pureIn, pureOut, orch, procVars>>

\* an iteration in which the crop, the resize or the write raises: finally
DynamicFrameRaise ==
    /\ pc = "D_loop"
    /\ frame_idx < Len(interpolated)
    /\ ReadOk(handles.cap_render, start_frame + frame_idx)
    /\ handles' = ReleaseRenderHandles(handles)
    /\ Raise("FrameError", "frame loop")
    /\ UNCHANGED <<env, req, enable_tracking, caller, sampling, face_positions,
                   frame_num, interpolated, frame_idx, files, calls, fed, crops, proc,
                   result, pureIn, pureOut, orch, procVars>>

\* loop exit (all frames done, or "if not ret: break"), finally
DynamicLoopEnd ==
    /\ pc = "D_loop"
    /\ frame_idx >= Len(interpolated)
       \/ ~ReadOk(handles.cap_render, start_frame + frame_idx)
    /\ handles' = ReleaseRenderHandles(handles)
    /\ pc' = "D_mux"
    /\ UNCHANGED <<env, req, enable_tracking, caller, sampling, face_positions,
                   frame_num, interpolated, frame_idx, files, calls, fed, crops, proc,
                   error, result, pureIn, pureOut, orch, procVars>>

\* subprocess.run of the audio mux command; it reads the temp file
DynamicMux ==
    /\ pc = "D_mux"
    /\ calls' = [calls EXCEPT !.mux = @ + 1]
    /\ \/ \E o \in FfmpegOutcomes :
             /\ o.rc = 0 => files.temp
             /\ proc' = o
             /\ files' = [files EXCEPT !.output = @ \/ o.wrote]
             /\ pc' = IF o.rc = 0 THEN "D_return" ELSE "D_failed"
             /\ UNCHANGED error
       \/ /\ Raise("OSError", "ffmpeg not started")
          /\ UNCHANGED <<proc, files>>
    /\ UNCHANGED <<env, req, enable_tracking, caller, sampling, face_positions,
                   frame_num, interpolated, frame_idx, handles, fed, crops, result,
                   pureIn, pureOut, orch, procVars>>

\* except CalledProcessError: unlink temp and output if they exist, raise; the
\* finally block then unlinks the temp file if it still exists
DynamicFailed ==
    /\ pc = "D_failed"
    /\ files' = [output |-> Unlinked(files.output),
                 temp |-> Unlinked(Unlinked(files.temp))]
    /\ RaiseWithDiagnostic
    /\ UNCHANGED <<env, req, enable_tracking, caller, sampling, face_positions,
                   frame_num, interpolated, frame_idx, handles, calls, fed, crops,
                   proc, result, pureIn, pureOut, orch, procVars>>

\* A mutation of the dynamic result: it reports the last frame's rectangle.
DynamicResultWithCrop ==
    [video_path |-> "output", tracking_enabled |-> TRUE, tracking_mode |-> "dynamic",
     faces_detected |-> Len(face_positions),
     frames_processed |-> frame_idx,
     crop_info |-> IF crops = <<>> THEN CropAt(DefaultCentre) ELSE crops[Len(crops)]]

\* the dict cut_clip_with_dynamic_tracking returns: it has no crop_info key
DynamicResult ==
    [video_path |-> "output", tracking_enabled |-> TRUE, tracking_mode |-> "dynamic",
     faces_detected |-> Len(face_positions),
     frames_processed |-> frame_idx]

\* mux succeeded: finally unlinks the temp file, then the dict is returned
DynamicReturn ==
    /\ pc = "D_return"
    /\ files' = [files EXCEPT !.temp = Unlinked(@)]
    /\ pc' = "returned"
    /\ result' = <<DynamicResult>>
    /\ UNCHANGED <<env, req, enable_tracking, caller, sampling, face_positions,
                   frame_num, interpolated, frame_idx, handles, calls, fed, crops,
                   proc, error, pureIn, pureOut, orch, procVars>>

-----------------------------------------------------------------------------
(* cut_clip_with_optional_reframe (api/routes.py), with reframing enabled  *)

\* the calls the wrapper makes: enable_tracking=True for the static entry
\* point, target_resolution left at its default
WrapperCall ==
    /\ req.entry = "tracking" => req.enable_tracking
    /\ req.target_resolution = <<1080, 1920>>

\* A mutation of the except handler: nothing is logged.
FallbackLogSilent(log, e) == log

\* bg_logger.warning("AI Reframe failed, falling back to center crop", error=str(e))
FallbackLog(log, e) == Append(log, [level |-> "warning", error |-> e.message])

\* the dict cutter.cut_clip(..., convert_to_vertical=True) returns
CutClipResult == [video_path |-> "output", format |-> "vertical"]

\* A mutation of the wrapper's control flow: the reframer's result is not
\* returned from inside the try block.
ReachesCutterAlways(enable_reframe, outcome) == outcome # "running"

\* whether control reaches "return cutter.cut_clip(...)": reframing is
\* disabled, or the reframer call ended by raising
ReachesCutter(enable_reframe, outcome) ==
    outcome # "running" /\ (~enable_reframe \/ outcome = "raised")

\* where the reframer call stands, as the wrapper sees it
ReframerOutcome == IF pc \in {"returned", "raised"} THEN pc ELSE "running"

\* the reframer returned: "return reframer.cut_clip_with_..."
OptionalReframeReturn ==
    /\ orch.pc = "reframe"
    /\ pc = "returned"
    /\ ~ReachesCutter(TRUE, ReframerOutcome)
    /\ WrapperCall
    /\ orch' = [orch EXCEPT !.pc = "returned", !.clip_result = result]
    /\ UNCHANGED <<env, req, pc, enable_tracking, caller, sampling, face_positions,
                   frame_num, interpolated, frame_idx, handles, files, calls, fed,
                   crops, proc, error, result, pureIn, pureOut, procVars>>

\* the reframer raised: "except Exception as e" logs a warning, then
\* cutter.cut_clip cuts a centre crop to the same output path; it returns its
\* dict, or unlinks the partial file and raises
OptionalReframeFallback ==
    /\ orch.pc = "reframe"
    /\ ReachesCutter(TRUE, ReframerOutcome)
    /\ WrapperCall
    /\ \E o \in FfmpegOutcomes :
          LET exists == files.output \/ o.wrote
              cut == o.rc = 0 /\ exists
          IN  /\ files' = [files EXCEPT
                             !.output = IF o.rc = 0 THEN exists ELSE Unlinked(exists)]
              /\ orch' = [pc |-> IF cut THEN "returned" ELSE "raised",
                          clip_result |-> IF cut THEN <<CutClipResult>> ELSE <<>>,
                          bg_log |-> IF pc = "raised"
                                     THEN FallbackLog(orch.bg_log, error)
                                     ELSE orch.bg_log,
                          cut_clip |-> orch.cut_clip + 1]
    /\ UNCHANGED <<env, req, pc, enable_tracking, caller, sampling, face_positions,
                   frame_num, interpolated, frame_idx, handles, calls, fed, crops,
                   proc, error, result, pureIn, pureOut, procVars>>

\* enable_reframe is False: the reframer is not called; cutter.cut_clip cuts
\* the centre crop and returns its dict, or unlinks the partial file and raises
OptionalReframeDisabled ==
    /\ orch.pc = "reframe"
    /\ pc = "start"
    /\ ReachesCutter(FALSE, "skipped")
    /\ WrapperCall
    /\ \E o \in FfmpegOutcomes :
          LET exists == files.output \/ o.wrote
              cut == o.rc = 0 /\ exists
          IN  /\ files' = [files EXCEPT
                             !.output = IF o.rc = 0 THEN exists ELSE Unlinked(exists)]
              /\ orch' = [pc |-> IF cut THEN "returned" ELSE "raised",
                          clip_result |-> IF cut THEN <<CutClipResult>> ELSE <<>>,
                          bg_log |-> orch.bg_log,
                          cut_clip |-> orch.cut_clip + 1]
    /\ UNCHANGED <<env, req, pc, enable_tracking, caller, sampling, face_positions,
                   frame_num, interpolated, frame_idx, handles, calls, fed, crops,
                   proc, error, result, pureIn, pureOut, procVars>>

Next ==
    \/ Enter
    \/ TrackingProbe \/ TrackingBranch \/ TrackingAfterDetect
    \/ TrackingRun \/ TrackingFailed \/ TrackingReturn
    \/ DetectOpen \/ DetectSample \/ DetectRaise \/ DetectReturn
    \/ DynamicEntry \/ DynamicAfterDetect \/ DynamicOpen \/ DynamicOpenRaise
    \/ DynamicFrame \/ DynamicFrameRaise \/ DynamicLoopEnd
    \/ DynamicMux \/ DynamicFailed \/ DynamicReturn
    \/ OptionalReframeReturn \/ OptionalReframeFallback \/ OptionalReframeDisabled

Spec == Init /\ [][Next]_vars

-----------------------------------------------------------------------------
(* The crop calculator on its own: every small source size, ratio and      *)
(* centre (centres outside [0, 1] included).                               *)

CropSizes == ((1..MaxSide) \X (1..MaxSide)) \cup Sources \cup {<<1080, 1920>>}
CropRatios == {Rat(n, d) : n \in 1..MaxRatioTerm, d \in 1..MaxRatioTerm} \cup {DefaultRatio}
CropCentres == {Rat(k, 4) : k \in (-1)..MaxCentreNum} \cup {Rat(2, 5)}

CropInputs ==
    [size : CropSizes, ratio : CropRatios, face_x : CropCentres, face_y : CropCentres]

CropInit ==
    /\ pc = "idle"
    /\ env = CHOOSE e \in Environments : TRUE
    /\ req = CHOOSE r \in Requests : TRUE
    /\ enable_tracking = FALSE
    /\ FreshCall
    /\ pureIn \in {<<i>> : i \in CropInputs}
    /\ pureOut = <<>>

\* one evaluation of calculate_dynamic_crop
ApplyCrop ==
    /\ pc = "idle"
    /\ pureOut = <<>>
    /\ pureOut' = <<calculate_dynamic_crop(pureIn[1].size[1], pureIn[1].size[2],
                                          pureIn[1].face_x, pureIn[1].face_y,
                                          pureIn[1].ratio)>>
    /\ UNCHANGED <<callVars, procVars, pureIn>>

CropSpec == CropInit /\ [][ApplyCrop]_vars

-----------------------------------------------------------------------------
(* interpolate_positions on its own: position lists with increasing        *)
(* timestamps (none included), whole and fractional frame rates.           *)

\* a FacePosition sampled at half-second tick k
SampleAt(k, face_data) ==
    [frame_num |-> k, timestamp |-> Rat(k, 2),
     center_x |-> face_data[1], center_y |-> face_data[2],
     width |-> face_data[3], height |-> face_data[4], confidence |-> face_data[5]]

RECURSIVE SampleLists(_, _)
\* the lists of at most n samples at increasing ticks from..MaxSampleTick
SampleLists(from, n) ==
    IF n = 0 \/ from > MaxSampleTick THEN {<<>>}
    ELSE {<<>>} \cup
         UNION { { <<SampleAt(k, d)>> \o rest : rest \in SampleLists(k + 1, n - 1) } :
                   k \in from..MaxSampleTick, d \in Detections }

InterpFrameRates == {RInt(1), RInt(2), Rat(5, 2), RInt(30), Rat(2997, 100)}

InterpInputs ==
    { i \in [positions : SampleLists(0, MaxSamples), fps : InterpFrameRates,
             start_time : {RInt(0), RInt(1)}, end_time : {RInt(1), RInt(2)}] :
        RLt(i.start_time, i.end_time) }

InterpInit ==
    /\ pc = "idle"
    /\ env = CHOOSE e \in Environments : TRUE
    /\ req = CHOOSE r \in Requests : TRUE
    /\ enable_tracking = FALSE
    /\ FreshCall
    /\ pureIn \in {<<i>> : i \in InterpInputs}
    /\ pureOut = <<>>

\* one evaluation of interpolate_positions
ApplyInterpolate ==
    /\ pc = "idle"
    /\ pureOut = <<>>
    /\ pureOut' = <<interpolate_positions(pureIn[1].positions, pureIn[1].fps,
                                         pureIn[1].start_time, pureIn[1].end_time)>>
    /\ UNCHANGED <<callVars, procVars, pureIn>>

InterpSpec == InterpInit /\ [][ApplyInterpolate]_vars

-----------------------------------------------------------------------------
(* smooth_positions on its own: every list of detections up to             *)
(* MaxSmoothLen, with the window sizes 1..MaxWindow and the two the entry  *)
(* points use.                                                             *)

RECURSIVE SmoothLists(_)
\* the lists of exactly n samples at ticks 0..n-1
SmoothLists(n) ==
    IF n = 0 THEN {<<>>}
    ELSE { Append(front, SampleAt(n - 1, d)) :
             front \in SmoothLists(n - 1), d \in Detections }

SmoothInputs ==
    [positions : UNION {SmoothLists(n) : n \in 0..MaxSmoothLen},
     smoothing_window : (1..MaxWindow) \cup {StaticWindow, DynamicWindow}]

SmoothInit ==
    /\ pc = "idle"
    /\ env = CHOOSE e \in Environments : TRUE
    /\ req = CHOOSE r \in Requests : TRUE
    /\ enable_tracking = FALSE
    /\ FreshCall
    /\ pureIn \in {<<i>> : i \in SmoothInputs}
    /\ pureOut = <<>>

\* one evaluation of smooth_positions
ApplySmooth ==
    /\ pc = "idle"
    /\ pureOut = <<>>
    /\ pureOut' = <<smooth_positions(pureIn[1].positions, pureIn[1].smoothing_window)>>
    /\ UNCHANGED <<callVars, procVars, pureIn>>

SmoothSpec == SmoothInit /\ [][ApplySmooth]_vars

-----------------------------------------------------------------------------
(* process_video (api/routes.py) and the processing lock of Project        *)
(* (models/project.py): the invocations scheduled for one project, each    *)
(* with its own database session. Commits are taken to succeed.            *)

\* Project.release_processing_lock
release_processing_lock(p) ==
    [p EXCEPT !.is_processing = FALSE, !.processing_started_at = NoTime]

\* Project.acquire_processing_lock at time t: <<returned value, the row after>>
acquire_processing_lock(p, t) ==
    LET taken == [p EXCEPT !.is_processing = TRUE, !.processing_started_at = t]
    IN  IF p.is_processing
        THEN IF p.processing_started_at # NoTime
                /\ (t - p.processing_started_at) * StaleAfter > StaleAfter
             THEN <<TRUE, taken>>
             ELSE <<FALSE, p>>
        ELSE <<TRUE, taken>>

\* reprocess_project up to its checks: 409 if is_processing, 400 unless the
\* status is error or completed
ReprocessCheck(t) ==
    /\ t # "create"
    /\ tasks[t].pc = "none"
    /\ ~project.is_processing
    /\ project.status \in {"error", "completed"}
    /\ tasks' = [tasks EXCEPT ![t].pc = "requested"]
    /\ UNCHANGED <<callVars, pureIn, pureOut, project, now>>

\* reprocess_project after its checks: reset the status, commit, add the task
ReprocessSchedule(t) ==
    /\ tasks[t].pc = "requested"
    /\ project' = [project EXCEPT
                     !.status = IF project.video THEN "downloading" ELSE "pending"]
    /\ tasks' = [tasks EXCEPT ![t].pc = "scheduled"]
    /\ UNCHANGED <<callVars, pureIn, pureOut, now>>

\* process_video under db_lock: query the project, try the lock; on failure
\* rollback and return (through finally), else commit and run the pipeline
ProcAcquire(t) ==
    /\ tasks[t].pc = "scheduled"
    /\ LET got == acquire_processing_lock(project, now)
       IN  /\ project' = got[2]
           /\ tasks' = [tasks EXCEPT ![t].pc = IF got[1] THEN "download" ELSE "finally",
                                     ![t].acquired = got[1]]
    /\ UNCHANGED <<callVars, pureIn, pureOut, now>>

\* step 1: update_progress(DOWNLOADING), then download the video (skipped when
\* the file is already there); the step completes at progress 15 or raises
ProcDownload(t) ==
    /\ tasks[t].pc = "download"
    /\ \/ /\ project' = [project EXCEPT !.status = "downloading", !.progress = 15,
                                        !.video = TRUE]
          /\ tasks' = [tasks EXCEPT ![t].pc = "transcribe"]
       \/ /\ ~project.video
          /\ project' = [project EXCEPT !.status = "downloading"]
          /\ tasks' = [tasks EXCEPT ![t].pc = "except"]
    /\ UNCHANGED <<callVars, pureIn, pureOut, now>>

\* step 2: update_progress(TRANSCRIBING), then transcribe; the step completes
\* at progress 40 or raises
ProcTranscribe(t) ==
    /\ tasks[t].pc = "transcribe"
    /\ \/ /\ project' = [project EXCEPT !.status = "transcribing", !.progress = 40]
          /\ tasks' = [tasks EXCEPT ![t].pc = "analyze"]
       \/ /\ project' = [project EXCEPT !.status = "transcribing"]
          /\ tasks' = [tasks EXCEPT ![t].pc = "except"]
    /\ UNCHANGED <<callVars, pureIn, pureOut, now>>

\* step 3: the analyzer returns clip_suggestions, or raises
ProcAnalyze(t) ==
    /\ tasks[t].pc = "analyze"
    /\ \/ \E n \in 0..MaxClips :
             /\ project' = [project EXCEPT !.status = "analyzing", !.progress = 60]
             /\ tasks' = [tasks EXCEPT ![t].pc = "cut", ![t].total_clips = n,
                                       ![t].clip_num = 0]
       \/ /\ project' = [project EXCEPT !.status = "analyzing"]
          /\ tasks' = [tasks EXCEPT ![t].pc = "except"]
    /\ UNCHANGED <<callVars, pureIn, pureOut, now>>

\* steps 4 and 5, one iteration of "for i, suggestion in enumerate(...)":
\* cut_clip_with_optional_reframe, subtitles, the Clip record; any may raise
ProcCutClip(t) ==
    /\ tasks[t].pc = "cut"
    /\ tasks[t].clip_num < tasks[t].total_clips
    /\ project' = [project EXCEPT !.status = "cutting"]
    /\ \/ tasks' = [tasks EXCEPT ![t].clip_num = @ + 1]
       \/ tasks' = [tasks EXCEPT ![t].pc = "except"]
    /\ UNCHANGED <<callVars, pureIn, pureOut, now>>

\* after the loop: update_progress(COMPLETED, 100)
ProcComplete(t) ==
    /\ tasks[t].pc = "cut"
    /\ tasks[t].clip_num >= tasks[t].total_clips
    /\ project' = [project EXCEPT !.status = "completed", !.progress = 100]
    /\ tasks' = [tasks EXCEPT ![t].pc = "finally"]
    /\ UNCHANGED <<callVars, pureIn, pureOut, now>>

\* "except Exception": rollback, status = error, commit
ProcExcept(t) ==
    /\ tasks[t].pc = "except"
    /\ project' = [project EXCEPT !.status = "error"]
    /\ tasks' = [tasks EXCEPT ![t].pc = "finally"]
    /\ UNCHANGED <<callVars, pureIn, pureOut, now>>

\* "finally: if project: project.release_processing_lock(); db.commit()"
ProcFinally(t) ==
    /\ tasks[t].pc = "finally"
    /\ project' = release_processing_lock(project)
    /\ tasks' = [tasks EXCEPT ![t].pc = "terminated"]
    /\ UNCHANGED <<callVars, pureIn, pureOut, now>>

\* time passes
Tick ==
    /\ now < MaxNow
    /\ now' = now + 1
    /\ UNCHANGED <<callVars, pureIn, pureOut, project, tasks>>

ProcInit ==
    /\ pc = "idle"
    /\ env = CHOOSE e \in Environments : TRUE
    /\ req = CHOOSE r \in Requests : TRUE
    /\ enable_tracking = FALSE
    /\ caller = "none" /\ sampling = "none"
    /\ face_positions = <<>> /\ frame_num = 0
    /\ interpolated = <<>> /\ frame_idx = 0
    /\ handles = [cap_detect |-> NoHandle, cap_render |-> NoHandle, out |-> NoHandle]
    /\ files = [output |-> FALSE, temp |-> FALSE]
    /\ calls = [probe |-> 0, detect |-> 0, transcode |-> 0, mux |-> 0]
    /\ fed = <<>> /\ crops = <<>>
    /\ proc = NoProc /\ error = NoError /\ result = <<>>
    /\ orch = NoOrch
    /\ pureIn = <<>> /\ pureOut = <<>>
    /\ project = NewProject
    /\ tasks = [t \in Invocations |->
                  IF t = "create" THEN [NoTask EXCEPT !.pc = "scheduled"] ELSE NoTask]
    /\ now = 0

ProcNext ==
    \/ Tick
    \/ \E t \in Invocations :
          \/ ReprocessCheck(t) \/ ReprocessSchedule(t) \/ ProcAcquire(t)
          \/ ProcDownload(t) \/ ProcTranscribe(t) \/ ProcAnalyze(t)
          \/ ProcCutClip(t) \/ ProcComplete(t) \/ ProcExcept(t) \/ ProcFinally(t)

ProcSpec == ProcInit /\ [][ProcNext]_vars

-----------------------------------------------------------------------------
(* Properties.                                                             *)

Terminal == pc \in {"returned", "raised"}
\* the call has ended and its caller has not acted on the outcome yet
JustEnded == Terminal /\ orch.pc = "reframe"
HandleNames == {"cap_detect", "cap_render", "out"}

\* the caller asked for no tracking, or the face detector is unavailable
TrackingOff ==
    IF req.entry = "dynamic" THEN ~env.cv2 \/ ~env.detector
    ELSE ~req.enable_tracking \/ ~env.detector

\* detect_faces_in_video returned an empty / a non-empty list
SampledEmpty == sampling = "returned" /\ face_positions = <<>>
SampledSome == sampling = "returned" /\ face_positions # <<>>

\* the rectangle for the default centre (0.5, 0.4) on this source
DefaultCrop ==
    calculate_dynamic_crop(source_width, source_height, Rat(1, 2), Rat(2, 5), Rat(9, 16))

\* C1: the rectangle calculate_dynamic_crop returns lies inside the source:
\* 0 <= x, 0 <= y, x + width <= source_w, y + height <= source_h.
C1_CropInsideSource ==
    \A i \in 1..Len(pureOut) :
        /\ 0 <= pureOut[i].x
        /\ 0 <= pureOut[i].y
        /\ pureOut[i].x + pureOut[i].width <= pureIn[i].size[1]
        /\ pureOut[i].y + pureOut[i].height <= pureIn[i].size[2]

\* C1 witness: a centre right of the frame whose rectangle was clamped to the
\* right edge.
C1_Witness ==
    /\ Len(pureOut) = 1
    /\ RLt(RInt(1), pureIn[1].face_x)
    /\ pureOut[1].x > 0
    /\ pureOut[1].width > 0
    /\ pureOut[1].x + pureOut[1].width = pureIn[1].size[1]

\* C2: with tracking disabled or the detector unavailable, either entry point
\* goes straight to the static render around (0.5, 0.4): the sampler is never
\* called, no capture or writer handle is made, no dynamic render happens.
C2_DisabledGoesStraightToStatic ==
    TrackingOff =>
        /\ calls.detect = 0
        /\ sampling = "none"
        /\ \A h \in HandleNames : ~handles[h].made
        /\ calls.mux = 0
        /\ fed \in {<<>>, <<<<Rat(1, 2), Rat(2, 5)>>>>}
        /\ calls.transcode >= 1 => (fed # <<>> /\ crops = <<DefaultCrop>>)
        /\ pc = "returned" =>
              /\ calls.transcode = 1
              /\ "crop_info" \in DOMAIN result[1]
              /\ result[1].crop_info = DefaultCrop

\* C2 witness: the dynamic entry point without a detector returned a result.
C2_Witness ==
    /\ TrackingOff
    /\ req.entry = "dynamic"
    /\ pc = "returned"

\* C3: when sampling ran and found nothing, the only render is the static one
\* around (0.5, 0.4); no dynamic render is started and sampling is not repeated.
C3_EmptyDetectionFallsBackToStatic ==
    SampledEmpty =>
        /\ calls.detect = 1
        /\ calls.mux = 0
        /\ ~handles.cap_render.made /\ ~handles.out.made
        /\ interpolated = <<>>
        /\ fed \in {<<>>, <<<<Rat(1, 2), Rat(2, 5)>>>>}
        /\ calls.transcode >= 1 => (fed # <<>> /\ crops = <<DefaultCrop>>)
        /\ pc = "returned" =>
              /\ calls.transcode = 1
              /\ "crop_info" \in DOMAIN result[1]
              /\ result[1].crop_info = DefaultCrop

\* C3 witness: a dynamic request whose sampling found nothing returned.
C3_Witness ==
    /\ SampledEmpty
    /\ req.entry = "dynamic"
    /\ pc = "returned"

\* the centres C4 expects: the mean of the positions smoothed with window 5,
\* and entry k of the interpolation of the positions smoothed with window 7
C4_MeanOfSmoothed(positions) ==
    LET s5 == smooth_positions(positions, 5)
    IN  <<Mean([i \in 1..Len(s5) |-> s5[i].center_x]),
          Mean([i \in 1..Len(s5) |-> s5[i].center_y])>>

C4_SmoothedTrajectoryAt(positions, k) ==
    LET traj == interpolate_positions(smooth_positions(positions, 7),
                                      env.fps, start_time, end_time)
    IN  <<traj[k][2], traj[k][3]>>

\* C4: when sampling found positions, the strategy follows the entry point
\* alone, and every centre handed to the crop calculator is a smoothed one: the
\* static render crops around the mean of the positions smoothed with window 5,
\* the dynamic render crops frame k around entry k of the interpolation of the
\* positions smoothed with window 7; each rectangle is the calculator's value
\* for that centre.
C4_SmoothedPositionsDriveTheCrop ==
    [][ /\ SampledSome' =>
             /\ req.entry = "tracking" =>
                   (calls'.mux = 0 /\ ~handles'.out.made /\ Len(fed') <= 1)
             /\ req.entry = "dynamic" => calls'.transcode = 0
             /\ calls'.transcode >= 1 => Len(fed') = 1
             /\ Len(crops') = Len(fed')
        /\ (SampledSome' /\ fed' # fed) =>
             /\ Len(fed') = Len(fed) + 1
             /\ SubSeq(fed', 1, Len(fed)) = fed
             /\ fed'[Len(fed')] = IF req.entry = "tracking"
                                  THEN C4_MeanOfSmoothed(face_positions')
                                  ELSE C4_SmoothedTrajectoryAt(face_positions',
                                                               Len(fed'))
             /\ crops' = Append(crops,
                                calculate_dynamic_crop(source_width, source_height,
                                                       fed'[Len(fed')][1],
                                                       fed'[Len(fed')][2], Rat(9, 16)))
      ]_vars

\* C4 witness: a static render returned after sampling three or more positions
\* that smoothing changes.
C4_Witness ==
    /\ SampledSome
    /\ req.entry = "tracking"
    /\ pc = "returned"
    /\ Len(face_positions) >= 3
    /\ smooth_positions(face_positions, 5) # face_positions

\* C5: no handle is released twice, and when the call has ended every handle
\* that was made is closed and was released exactly once.
C5_HandlesReleasedExactlyOnce ==
    \A h \in HandleNames :
        /\ handles[h].releases <= 1
        /\ Terminal => (~handles[h].open /\ (handles[h].made => handles[h].releases = 1))

\* C5 witness: the frame loop raised with the capture and the writer open.
C5_Witness ==
    /\ pc = "raised"
    /\ error.kind = "FrameError"
    /\ handles.cap_render.opened /\ handles.out.opened
    /\ handles.cap_detect.opened

\* C6 as claimed: after a non-zero exit of the static transcode the raised
\* error carries the stderr text and no file is at the output path.
C6_StaticFailureLeavesNoFile ==
    (JustEnded /\ pc = "raised" /\ calls.transcode = 1 /\ proc.rc # 0) =>
        /\ error.kind = "RuntimeError"
        /\ proc.stderr # "none" => error.message = "stderr"
        /\ ~files.output

\* C7 as claimed: once the dynamic entry point has returned or raised, the
\* temp file is gone, and if it raised no output file is left either.
C7_DynamicLeavesNoTempFile ==
    (req.entry = "dynamic" /\ JustEnded) =>
        /\ ~files.temp
        /\ pc = "raised" => ~files.output

\* C8: a source that cannot be opened for sampling makes the call raise
\* ValueError: nothing is rendered; a static render without positions only
\* follows disabled tracking, an unavailable detector or an empty detection.
C8_UnreadableSourceIsFatal ==
    /\ (handles.cap_detect.made /\ ~handles.cap_detect.opened) =>
          /\ pc = "raised"
          /\ error.kind = "ValueError"
          /\ calls.transcode = 0 /\ calls.mux = 0
          /\ fed = <<>> /\ result = <<>>
          /\ ~handles.cap_render.made /\ ~handles.out.made
    /\ sampling \in {"unreadable", "raised"} =>
          (pc = "raised" /\ calls.transcode = 0 /\ calls.mux = 0)
    /\ (calls.transcode >= 1 /\ face_positions = <<>>) =>
          (TrackingOff \/ SampledEmpty)

\* C8 witness: the dynamic entry point raised because the source did not open.
C8_Witness ==
    /\ req.entry = "dynamic"
    /\ handles.cap_detect.made /\ ~handles.cap_detect.opened
    /\ pc = "raised"

\* C9 as claimed: a call returns a result only if the output file exists.
C9_ResultImpliesOutputFile ==
    pc = "returned" => files.output

\* C10 as claimed: a static call with tracking enabled, a detector and no face
\* found reports tracking not used, zero positions and the default-centre
\* rectangle; tracking is reported used only if positions were detected.
C10_FallbackReportsTrackingUnused ==
    /\ (pc = "returned" /\ req.entry = "tracking" /\ req.enable_tracking
          /\ env.detector /\ SampledEmpty) =>
          /\ result[1].tracking_enabled = FALSE
          /\ result[1].faces_detected = 0
          /\ result[1].crop_info = DefaultCrop
    /\ (pc = "returned" /\ result[1].tracking_enabled) => face_positions # <<>>

\* the conceptual state of a call, read off the position in the code
Phase ==
    CASE pc = "raised" -> "Failed"
      [] pc = "returned" -> "Done"
      [] pc \in {"detect_open", "detect_loop"} -> "Sampling"
      [] pc \in {"T_after_detect", "D_after_detect"} ->
            IF face_positions = <<>> THEN "Empty" ELSE "NonEmpty"
      [] pc \in {"D_open", "D_loop", "D_mux", "D_failed", "D_return"} -> "Dynamic"
      [] pc \in {"T_run", "T_failed", "T_verify"} ->
            IF face_positions = <<>> THEN "StaticFallback" ELSE "Static"
      [] OTHER -> IF sampling = "none" THEN "Init" ELSE "Empty"

\* the edges of the conceptual state machine (smoothing happens on the edge
\* out of NonEmpty; Disabled / Unavailable on the edge Init -> StaticFallback)
PhaseEdges ==
    { <<"Init", "Sampling">>, <<"Init", "StaticFallback">>,
      <<"Sampling", "Empty">>, <<"Sampling", "NonEmpty">>,
      <<"Empty", "StaticFallback">>,
      <<"NonEmpty", "Static">>, <<"NonEmpty", "Dynamic">>,
      <<"StaticFallback", "Done">>, <<"Static", "Done">>, <<"Dynamic", "Done">> }
    \cup { <<p, "Failed">> : p \in {"Init", "Sampling", "Empty", "NonEmpty",
                                   "StaticFallback", "Static", "Dynamic"} }

\* a render strategy has been started
StaticStarted == calls.transcode >= 1
DynamicStarted == handles.cap_render.made \/ handles.out.made \/ calls.mux >= 1

\* C11: every call moves along the edges Init -> StaticFallback (tracking
\* disabled or detector unavailable), Init -> Sampling -> Empty -> StaticFallback,
\* Init -> Sampling -> NonEmpty -> Static | Dynamic, then Done, or ends in
\* Failed; the sampler is called at most once, never both render strategies are
\* started and the one started runs once, a returned call ran exactly one, and
\* the result has a crop_info key exactly when the static strategy produced it.
C11_CallFollowsStateMachine ==
    [][ /\ (Phase' # Phase) => (<<Phase, Phase'>> \in PhaseEdges)
        /\ (Phase = "Init" /\ Phase' = "StaticFallback") => TrackingOff
        /\ calls'.detect <= 1
        /\ calls'.transcode <= 1 /\ calls'.mux <= 1
        /\ ~(StaticStarted' /\ DynamicStarted')
        /\ Phase' \in {"Static", "StaticFallback"} => ~DynamicStarted'
        /\ Phase' = "Dynamic" => ~StaticStarted'
        /\ pc' = "returned" =>
              /\ StaticStarted' \/ DynamicStarted'
              /\ ("crop_info" \in DOMAIN result'[1]) <=> StaticStarted'
              /\ ("tracking_mode" \in DOMAIN result'[1]) <=> DynamicStarted'
      ]_vars

\* C11 witness: a dynamic call that sampled positions and returned its result
\* after rendering frames.
C11_Witness ==
    /\ pc = "returned"
    /\ req.entry = "dynamic"
    /\ face_positions # <<>>
    /\ calls.detect = 1 /\ calls.mux = 1 /\ calls.transcode = 0
    /\ frame_idx >= 1
    /\ "crop_info" \notin DOMAIN result[1]

\* C12 as claimed: the rectangle has exactly the target ratio num/den:
\* width * den = height * num.
C12_CropRatioExact ==
    \A i \in 1..Len(pureOut) :
        pureOut[i].width * pureIn[i].ratio[2] = pureOut[i].height * pureIn[i].ratio[1]

\* C12: the rectangle has the target ratio num/den up to the truncation of the
\* computed side: if the source is wider than the target, height = source_h and
\* 0 <= height * num - width * den < den; otherwise width = source_w and
\* 0 <= width * den - height * num < num.
C12_CropRatioUpToTruncation ==
    \A i \in 1..Len(pureOut) :
        LET num == pureIn[i].ratio[1]
            den == pureIn[i].ratio[2]
            excess == pureOut[i].height * num - pureOut[i].width * den
        IN  IF pureIn[i].size[1] * den > pureIn[i].size[2] * num
            THEN /\ pureOut[i].height = pureIn[i].size[2]
                 /\ 0 <= excess /\ excess < den
            ELSE /\ pureOut[i].width = pureIn[i].size[1]
                 /\ 0 <= -excess /\ -excess < num

\* C12 witness: 1920x1080 at 9/16 gives 607x1080, where 607 * 16 # 1080 * 9.
C12_Witness ==
    /\ Len(pureOut) = 1
    /\ pureIn[1].size = <<1920, 1080>>
    /\ pureIn[1].ratio = <<9, 16>>
    /\ pureOut[1].width = 607 /\ pureOut[1].height = 1080

\* the reference algorithm of C13, in integer arithmetic: ratio = num/den,
\* centre = cn/cd, floor(a/b) = a \div b
C13_Clamp(v, hi) == IF v < 0 THEN 0 ELSE IF v > hi THEN hi ELSE v

C13_Reference(w, h, cx, cy, ratio) ==
    LET wide == w * ratio[2] > h * ratio[1]
        rw == IF wide THEN (h * ratio[1]) \div ratio[2] ELSE w
        rh == IF wide THEN h ELSE (w * ratio[2]) \div ratio[1]
    IN  [x |-> C13_Clamp((cx[1] * w) \div cx[2] - rw \div 2, w - rw),
         y |-> C13_Clamp((cy[1] * h) \div cy[2] - rh \div 2, h - rh),
         width |-> rw, height |-> rh]

\* C13: calculate_dynamic_crop equals the reference algorithm on every input:
\* a source wider than the target keeps its height and gets width
\* floor(source_h * ratio), otherwise it keeps its width and gets height
\* floor(source_w / ratio); the rectangle is placed half its size left of and
\* above floor(center * source size) and clamped into the source; and
\* compute(1920, 1080, 0.5, 0.5, 9/16) = (657, 0, 607, 1080).
C13_CropEqualsReference ==
    \A i \in 1..Len(pureOut) :
        /\ pureOut[i] = C13_Reference(pureIn[i].size[1], pureIn[i].size[2],
                                      pureIn[i].face_x, pureIn[i].face_y,
                                      pureIn[i].ratio)
        /\ (/\ pureIn[i].size = <<1920, 1080>> /\ pureIn[i].ratio = <<9, 16>>
            /\ pureIn[i].face_x = <<1, 2>> /\ pureIn[i].face_y = <<1, 2>>)
              => pureOut[i] = [x |-> 657, y |-> 0, width |-> 607, height |-> 1080]

\* C13 witness: the example compute(1920, 1080, 0.5, 0.5, 9/16) was evaluated.
C13_Witness ==
    /\ Len(pureOut) = 1
    /\ pureIn[1].size = <<1920, 1080>> /\ pureIn[1].ratio = <<9, 16>>
    /\ pureIn[1].face_x = <<1, 2>> /\ pureIn[1].face_y = <<1, 2>>
    /\ pureOut[1].x = 657

C15_CropUsesRequestedRatio ==
    \A i \in 1..Len(crops) :
        crops[i] = calculate_dynamic_crop(source_width, source_height,
                                          fed[i][1], fed[i][2], Rat(target_w, target_h))

\* C16: without positions interpolate_positions returns exactly
\* int((end - start) * fps) tuples, tuple i at time start + i / fps, each with
\* the centre (0.5, 0.4); for fps = 30, start = 0, end = 2 that is 60 tuples.
C16_EmptyInterpolationIsDefault ==
    \A n \in 1..Len(pureOut) :
        pureIn[n].positions = <<>> =>
            LET span == RSub(pureIn[n].end_time, pureIn[n].start_time)
                exact == RMul(span, pureIn[n].fps)
                count == exact[1] \div exact[2]
            IN  /\ Len(pureOut[n]) = count
                /\ \A i \in 1..count :
                      /\ pureOut[n][i][2] = <<1, 2>> /\ pureOut[n][i][3] = <<2, 5>>
                      /\ RMul(RSub(pureOut[n][i][1], pureIn[n].start_time),
                              pureIn[n].fps) = RInt(i - 1)
                /\ (/\ pureIn[n].fps = RInt(30) /\ pureIn[n].start_time = RInt(0)
                    /\ pureIn[n].end_time = RInt(2)) => Len(pureOut[n]) = 60

\* C16 witness: the example fps = 30, start = 0, end = 2 gave 60 tuples.
C16_Witness ==
    /\ Len(pureOut) = 1
    /\ pureIn[1].positions = <<>>
    /\ pureIn[1].fps = RInt(30)
    /\ pureIn[1].start_time = RInt(0) /\ pureIn[1].end_time = RInt(2)
    /\ Len(pureOut[1]) = 60
    /\ pureOut[1][60] = <<Rat(59, 30), Rat(1, 2), Rat(2, 5)>>

\* v lies between a and b (either order)
C17_Between(v, a, b) ==
    \/ RLe(a, v) /\ RLe(v, b)
    \/ RLe(b, v) /\ RLe(v, a)

\* coordinate c of output tuple t agrees with the piecewise-linear curve
\* through the samples ps (c = 2 for x, 3 for y)
C17_OnCurve(t, ps, c) ==
    LET n == Len(ps)
        val(j) == IF c = 2 THEN ps[j].center_x ELSE ps[j].center_y
    IN  /\ \A j \in 1..n : t[1] = ps[j].timestamp => t[c] = val(j)
        /\ RLe(t[1], ps[1].timestamp) => t[c] = val(1)
        /\ RLe(ps[n].timestamp, t[1]) => t[c] = val(n)
        /\ \A j \in 1..(n - 1) :
              (RLe(ps[j].timestamp, t[1]) /\ RLe(t[1], ps[j + 1].timestamp)) =>
                  /\ C17_Between(t[c], val(j), val(j + 1))
                  /\ RMul(RSub(t[c], val(j)),
                          RSub(ps[j + 1].timestamp, ps[j].timestamp))
                     = RMul(RSub(val(j + 1), val(j)), RSub(t[1], ps[j].timestamp))

\* C17: for a non-empty list with increasing timestamps every output tuple is
\* on the piecewise-linear curve through the samples: at a sample's timestamp
\* it has that sample's (x, y); before the first sample the first sample's,
\* after the last the last sample's; between two neighbouring samples it lies
\* on the line through them, inside the range they span.
C17_InterpolationIsPiecewiseLinear ==
    \A n \in 1..Len(pureOut) :
        pureIn[n].positions # <<>> =>
            \A i \in 1..Len(pureOut[n]) :
                /\ C17_OnCurve(pureOut[n][i], pureIn[n].positions, 2)
                /\ C17_OnCurve(pureOut[n][i], pureIn[n].positions, 3)

\* C17 witness: one output before the first sample, one after the last, one at
\* a sample's timestamp and one strictly between two samples with different x.
C17_Witness ==
    /\ Len(pureOut) = 1
    /\ Len(pureIn[1].positions) >= 2
    /\ LET ps == pureIn[1].positions
           out == pureOut[1]
       IN  /\ \E i \in 1..Len(out) : RLt(out[i][1], ps[1].timestamp)
           /\ \E i \in 1..Len(out) : RLt(ps[Len(ps)].timestamp, out[i][1])
           /\ \E i \in 1..Len(out), j \in 1..Len(ps) : out[i][1] = ps[j].timestamp
           /\ \E i \in 1..Len(out), j \in 1..(Len(ps) - 1) :
                 /\ RLt(ps[j].timestamp, out[i][1])
                 /\ RLt(out[i][1], ps[j + 1].timestamp)
                 /\ ps[j].center_x # ps[j + 1].center_x
                 /\ out[i][2] # ps[j].center_x /\ out[i][2] # ps[j + 1].center_x

\* all positions of the list have the same centre
C18_SameCentre(ps) ==
    \A i, j \in 1..Len(ps) :
        ps[i].center_x = ps[j].center_x /\ ps[i].center_y = ps[j].center_y

\* C18: smooth_positions (windows 5 and 7, and the smaller ones) returns a list of fewer than 3
\* positions unchanged, and a list whose positions all have the same centre
\* with that centre in every position and nothing else changed.
C18_SmoothingKeepsFixedPoints ==
    \A n \in 1..Len(pureOut) :
        /\ Len(pureIn[n].positions) < 3 => pureOut[n] = pureIn[n].positions
        /\ C18_SameCentre(pureIn[n].positions) =>
              /\ Len(pureOut[n]) = Len(pureIn[n].positions)
              /\ \A i \in 1..Len(pureOut[n]) :
                    /\ pureOut[n][i].center_x = pureIn[n].positions[1].center_x
                    /\ pureOut[n][i].center_y = pureIn[n].positions[1].center_y
                    /\ pureOut[n][i] = pureIn[n].positions[i]

\* C18 witness: a list longer than the window whose positions all have the
\* same centre was smoothed with window 5 and came back as it was.
C18_Witness ==
    /\ Len(pureOut) = 1
    /\ Len(pureIn[1].positions) > 5
    /\ pureIn[1].smoothing_window = 5
    /\ C18_SameCentre(pureIn[1].positions)
    /\ pureOut[1] = pureIn[1].positions

\* the rectangles of the smoothed samples of a dynamic render, in order
C19_SampleCrops(positions) ==
    LET smoothed == smooth_positions(positions, 7)
    IN  [j \in 1..Len(smoothed) |->
            calculate_dynamic_crop(source_width, source_height,
                                   smoothed[j].center_x, smoothed[j].center_y,
                                   Rat(9, 16))]

\* the largest |difference| of field f between two consecutive rectangles of cs
C19_MaxMove(cs, f) ==
    LET moves == {Abs(cs[j + 1][f] - cs[j][f]) : j \in 1..(Len(cs) - 1)} \cup {0}
    IN  CHOOSE m \in moves : \A k \in moves : k <= m

\* C19 as claimed: the rectangle of each frame of a dynamic render differs from
\* the rectangle of the frame before it, in x and in y, by no more than the
\* largest difference between the rectangles of two consecutive smoothed samples.
C19_AdjacentFramesMoveNoMoreThanSamples ==
    [][ (req.entry = "dynamic" /\ crops' # crops /\ Len(crops') >= 2) =>
            LET before == crops'[Len(crops') - 1]
                current == crops'[Len(crops')]
                cs == C19_SampleCrops(face_positions')
            IN  /\ Abs(current.x - before.x) <= C19_MaxMove(cs, "x")
                /\ Abs(current.y - before.y) <= C19_MaxMove(cs, "y")
      ]_vars

\* the wrapper has finished after the reframer raised
C20_ReframerRaisedAndHandled == pc = "raised" /\ orch.pc # "reframe"

\* C20 as claimed: when the reframer raised a render failure or a
\* source-unreadable error, the wrapper ends in failure: no clip is returned
\* for it, and the diagnostic is logged.
C20_ReframerFailureFailsTheClip ==
    (C20_ReframerRaisedAndHandled /\ error.kind \in {"RuntimeError", "ValueError"}) =>
        /\ orch.pc = "raised"
        /\ orch.clip_result = <<>>
        /\ \E i \in 1..Len(orch.bg_log) : orch.bg_log[i].error = error.message

\* C20: when the reframer raised, the wrapper logged one warning carrying
\* str(e) and called the centre-crop cutter once; the clip is the cutter's and
\* its file exists if the cutter succeeded, and only if the cutter raised too
\* is there no clip.
C20_ReframerFailureFallsBackToCentreCrop ==
    /\ C20_ReframerRaisedAndHandled =>
          /\ orch.bg_log = <<[level |-> "warning", error |-> error.message]>>
          /\ orch.cut_clip = 1
          /\ orch.pc \in {"returned", "raised"}
          /\ orch.pc = "returned" =>
                (orch.clip_result = <<CutClipResult>> /\ files.output)
          /\ orch.pc = "raised" => (orch.clip_result = <<>> /\ ~files.output)
    /\ (orch.pc # "reframe" /\ pc = "returned") =>
          (orch.cut_clip = 0 /\ orch.bg_log = <<>> /\ orch.clip_result = result)

\* C20 witness: the source could not be opened for sampling, the reframer
\* raised ValueError, and the wrapper returned the centre-crop clip.
C20_Witness ==
    /\ pc = "raised"
    /\ error.kind = "ValueError"
    /\ sampling = "unreadable"
    /\ orch.pc = "returned"
    /\ orch.clip_result # <<>>

\* invocation t is executing the pipeline (download, transcribe, analyse, cut)
InPipeline(t) == tasks[t].pc \in {"download", "transcribe", "analyze", "cut", "except"}

\* C21 as claimed: while no more than the staleness threshold of 600 s has
\* passed (so no run can have held the lock longer), at most one invocation
\* is executing the pipeline for the project.
C21_OneInvocationInPipeline ==
    (now * StaleAfter <= StaleAfter) =>
        \A t, u \in Invocations : (InPipeline(t) /\ InPipeline(u)) => t = u

\* C22 as claimed: an invocation that failed to acquire the lock never changes
\* is_processing or processing_started_at, neither in the failed attempt nor
\* on its way out.
C22_FailedAcquireLeavesLockAlone ==
    [][ \A t \in Invocations :
          (/\ tasks'[t] # tasks[t]
           /\ ~tasks'[t].acquired
           /\ tasks'[t].pc \in {"finally", "terminated"}) =>
              /\ project'.is_processing = project.is_processing
              /\ project'.processing_started_at = project.processing_started_at
      ]_vars

\* invocation t, which had acquired the lock, terminates in this step
C23_Terminates(t) ==
    /\ tasks[t].acquired
    /\ tasks[t].pc # "terminated"
    /\ tasks'[t].pc = "terminated"

\* C23 as claimed: when an invocation that acquired the lock terminates,
\* is_processing is False and the project's status is completed with progress
\* 100, or error.
C23_TerminatedMeansReleasedAndFinalStatus ==
    [][ \A t \in Invocations :
          C23_Terminates(t) =>
              /\ ~project'.is_processing
              /\ \/ project'.status = "completed" /\ project'.progress = 100
                 \/ project'.status = "error"
      ]_vars

\* C24: within one call the stages run in sequence. The sampling capture is
\* released before any render starts; the k-th frame written in a dynamic
\* render is the k-th frame read, cropped around the k-th interpolated
\* position, with none skipped or reordered (the rectangle of each frame is
\* compared when it is the last one written); the mux is issued only after the
\* frame loop has ended and the render capture and the writer are released.
C24_StagesInSequence ==
    /\ (StaticStarted \/ DynamicStarted) =>
          /\ ~handles.cap_detect.open
          /\ handles.cap_detect.made => handles.cap_detect.releases = 1
    /\ handles.cap_render.made =>
          /\ Len(fed) = frame_idx /\ Len(crops) = frame_idx
          /\ frame_idx <= Len(interpolated)
          /\ \A k \in 1..Len(fed) :
                fed[k] = <<interpolated[k][2], interpolated[k][3]>>
          /\ fed # <<>> => crops[Len(crops)] = CropAt(fed[Len(fed)])
    /\ ~DynamicStarted => frame_idx = 0
    /\ calls.mux >= 1 =>
          /\ pc # "D_loop"
          /\ handles.cap_render.made /\ ~handles.cap_render.open
          /\ handles.cap_render.releases = 1
          /\ handles.out.made /\ ~handles.out.open /\ handles.out.releases = 1

\* C24 witness: a dynamic render wrote two frames around different positions
\* and returned after the mux.
C24_Witness ==
    /\ pc = "returned"
    /\ req.entry = "dynamic"
    /\ calls.mux = 1
    /\ Len(fed) >= 2
    /\ fed[1] # fed[2]
    /\ handles.cap_detect.opened

\* C25 as claimed: a dynamic render that returns a result has written one
\* frame per interpolated position, so frames_processed is the number of
\* output frames of the window (stated here for renders that wrote at least
\* one frame).
C25_DynamicResultHasEveryFrame ==
    (/\ pc = "returned"
     /\ "frames_processed" \in DOMAIN result[1]
     /\ result[1].frames_processed >= 1) =>
        /\ result[1].frames_processed = Len(interpolated)
        /\ Len(crops) = Len(interpolated)

\* C26 as claimed: in detect_faces_in_video the sampled frame index strictly
\* increases on each iteration of the sampling loop (the measure by which the
\* loop terminates), also when sample_interval * fps is below 1.
C26_SampledIndexIncreases ==
    [][ (pc = "detect_loop" /\ pc' = "detect_loop"
           /\ face_positions' # face_positions) => frame_num' > frame_num ]_vars

\* round() of a non-negative float as the claims use it: to the nearest
\* integer, a tie going to the even one
C27_Round(p) ==
    LET f == p[1] \div p[2]
        twice == 2 * (p[1] - f * p[2])
    IN  IF twice < p[2] THEN f
        ELSE IF twice > p[2] THEN f + 1
        ELSE IF f % 2 = 0 THEN f ELSE f + 1

\* C27 as claimed: the positions detect_faces_in_video collects lie at frame
\* indices from that of start_time to before that of end_time, a whole number
\* of steps of round(sample_interval * fps) frames apart, at most one per
\* sampled frame, so their frame indices strictly increase.
C27_FrameIndicesStrictlyIncrease ==
    LET step == C27_Round(RMul(req.sample_interval, env.fps))
    IN  /\ \A i \in 1..Len(face_positions) :
              /\ start_frame <= face_positions[i].frame_num
              /\ face_positions[i].frame_num < end_frame
              /\ step > 0 => (face_positions[i].frame_num - start_frame) % step = 0
        /\ \A i \in 1..(Len(face_positions) - 1) :
              face_positions[i].frame_num < face_positions[i + 1].frame_num

\* C28 as claimed: interpolate_positions returns round((end - start) * fps)
\* entries, for an empty and a non-empty list, whatever the frame rate.
C28_CountIsRounded ==
    \A n \in 1..Len(pureOut) :
        Len(pureOut[n]) =
            C27_Round(RMul(RSub(pureIn[n].end_time, pureIn[n].start_time), pureIn[n].fps))

\* C28: interpolate_positions returns int((end - start) * fps) entries, the
\* product truncated and not rounded, for an empty and a non-empty list and
\* for non-integer frame rates (29 entries for one second at 29.97 fps).
C28_CountIsTruncated ==
    \A n \in 1..Len(pureOut) :
        LET exact == RMul(RSub(pureIn[n].end_time, pureIn[n].start_time), pureIn[n].fps)
        IN  /\ Len(pureOut[n]) = exact[1] \div exact[2]
            /\ RLe(RInt(Len(pureOut[n])), exact)
            /\ RLt(exact, RInt(Len(pureOut[n]) + 1))

\* C28 witness: a non-empty list over one second at 29.97 fps gives 29 entries.
C28_Witness ==
    /\ Len(pureOut) = 1
    /\ pureIn[1].positions # <<>>
    /\ pureIn[1].fps = Rat(2997, 100)
    /\ pureIn[1].start_time = RInt(1) /\ pureIn[1].end_time = RInt(2)
    /\ Len(pureOut[1]) = 29

\* C29: for every list and every window size of at least 1, smooth_positions
\* returns a list of the same length whose entry i keeps the frame index,
\* timestamp, width, height and confidence of input entry i; only the centre
\* may differ.
C29_SmoothingKeepsShape ==
    \A n \in 1..Len(pureOut) :
        /\ Len(pureOut[n]) = Len(pureIn[n].positions)
        /\ \A i \in 1..Len(pureOut[n]) :
              /\ pureOut[n][i].frame_num = pureIn[n].positions[i].frame_num
              /\ pureOut[n][i].timestamp = pureIn[n].positions[i].timestamp
              /\ pureOut[n][i].width = pureIn[n].positions[i].width
              /\ pureOut[n][i].height = pureIn[n].positions[i].height
              /\ pureOut[n][i].confidence = pureIn[n].positions[i].confidence
              /\ DOMAIN pureOut[n][i] = DOMAIN pureIn[n].positions[i]

\* C29 witness: a list of faces of different widths, longer than an even
\* window, was smoothed and its first centre moved.
C29_Witness ==
    /\ Len(pureOut) = 1
    /\ pureIn[1].smoothing_window = 4
    /\ Len(pureIn[1].positions) > 4
    /\ pureIn[1].positions[1].width # pureIn[1].positions[2].width
    /\ pureOut[1][1].center_x # pureIn[1].positions[1].center_x
    /\ Len(pureOut[1]) = Len(pureIn[1].positions)

\* the wrapper has finished
C30_WrapperEnded == orch.pc # "reframe"

\* C30: cut_clip_with_optional_reframe runs the centre-crop cutter exactly
\* when reframing is disabled or the reframer call raised. If the reframer
\* was called and returned, the wrapper returns its result and the cutter is
\* not invoked; otherwise the cutter is invoked exactly once, and only after
\* the reframer call, if any, has ended. The reframer is called at most once:
\* not after the wrapper took the disabled path, and never again once ended.
C30_FallbackExactlyWhenDisabledOrRaised ==
    [][ /\ orch.cut_clip' <= 1
        /\ C30_WrapperEnded' =>
              IF pc' = "returned"
              THEN /\ orch.cut_clip' = 0
                   /\ orch.pc' = "returned"
                   /\ orch.clip_result' = result'
              ELSE /\ pc' \in {"start", "raised"}
                   /\ orch.cut_clip' = 1
                   /\ orch.clip_result' \in {<<>>, <<CutClipResult>>}
        /\ orch.cut_clip' # orch.cut_clip => (pc \in {"start", "raised"} /\ pc' = pc)
        /\ pc' # pc => (pc # "start" => pc' # "start") /\ ~Terminal /\ ~C30_WrapperEnded
      ]_vars

\* C30 witness: reframing was disabled, the reframer was not called and the
\* cutter, invoked once, returned the clip.
C30_Witness ==
    /\ pc = "start"
    /\ calls.probe = 0
    /\ orch.pc = "returned"
    /\ orch.cut_clip = 1
    /\ orch.clip_result = <<CutClipResult>>
    /\ orch.bg_log = <<>>
    /\ files.output

=============================================================================
